---- MODULE Spec2Model ----
(***************************************************************************)
(* Model of tools/agent/run.ts: the unified-diff applier                   *)
(* (applyUnifiedDiff), the allowlist guardrail and the orchestration run   *)
(* (main).                                                                 *)
(*                                                                         *)
(* Text representation.  A JavaScript string is modelled by the sequence   *)
(* of its lines (what s.split("\n") returns, so never the empty sequence:  *)
(* the empty string is <<Blank>>), and a line by the sequence of its       *)
(* tokens.  A token is a fixed, non-empty piece of text; "+", "-" and "\"  *)
(* are the only tokens that begin with those characters, and the path      *)
(* tokens form a prefix code, so startsWith on tokens is startsWith on     *)
(* characters.  join("\n") of an array of lines is the array itself        *)
(* (<<Blank>> for the empty array).                                        *)
(***************************************************************************)
EXTENDS Naturals, Sequences, FiniteSets, TLC

\* ---------------------------------------------------------------- bounds
\* Most `diff --git` sections in one model reply.
MaxSections == 2
\* Most `@@ ... @@` hunks in the section under study.
MaxHunks == 1

\* ------------------------------------------------------- strings, lines
Blank == <<>>
EmptyText == <<Blank>>
NoPath == <<>>

StartsWith(s, pre) == Len(s) >= Len(pre) /\ SubSeq(s, 1, Len(pre)) = pre
Slice(s, k) == SubSeq(s, k + 1, Len(s))

RECURSIVE Flatten(_)
Flatten(ss) == IF ss = <<>> THEN <<>> ELSE Head(ss) \o Flatten(Tail(ss))

\* Array.prototype.join("\n"), in the line representation.
Join(lines) == IF lines = <<>> THEN EmptyText ELSE lines

\* The k-th smallest member of a set of naturals.
Kth(K, j) == CHOOSE k \in K : Cardinality({x \in K : x <= k}) = j

\* String.prototype.split(re) for a regular expression that matches whole
\* lines (^...$ with the m flag): K holds the indices of the matching lines.
\* The line terminators around a matched line stay in the neighbouring
\* pieces, which is the Blank each piece gains at that end.
SplitAtLines(T, K) ==
    LET n == Len(T)
        m == Cardinality(K)
        lo(j) == IF j = 0 THEN 1 ELSE Kth(K, j) + 1
        hi(j) == IF j = m THEN n ELSE Kth(K, j + 1) - 1
        piece(j) == (IF j = 0 THEN <<>> ELSE <<Blank>>)
                    \o SubSeq(T, lo(j), hi(j))
                    \o (IF j = m THEN <<>> ELSE <<Blank>>)
    IN  [j \in 1..(m + 1) |-> piece(j - 1)]

\* String.prototype.trim(): white-space lines and white-space tokens go from
\* both ends.  " " is the only token made of white space alone.
IsWsLine(ln) == \A j \in 1..Len(ln) : ln[j] = " "

RECURSIVE LStripTokens(_)
LStripTokens(ln) ==
    IF ln # <<>> /\ Head(ln) = " " THEN LStripTokens(Tail(ln)) ELSE ln

RECURSIVE RStripTokens(_)
RStripTokens(ln) ==
    IF ln # <<>> /\ ln[Len(ln)] = " "
    THEN RStripTokens(SubSeq(ln, 1, Len(ln) - 1)) ELSE ln

Trim(T) ==
    LET keep == {j \in 1..Len(T) : ~IsWsLine(T[j])}
    IN  IF keep = {} THEN EmptyText
        ELSE LET a == Kth(keep, 1)
                 b == Kth(keep, Cardinality(keep))
             IN  IF a = b THEN <<RStripTokens(LStripTokens(T[a]))>>
                 ELSE <<LStripTokens(T[a])>> \o SubSeq(T, a + 1, b - 1)
                      \o <<RStripTokens(T[b])>>

\* ------------------------------------------------------------ diff lines
DiffGitPrefix == <<"diff --git ">>
NewHeaderPrefix == <<"+", "+", "+", " b/">>
OldHeaderPrefix == <<"-", "-", "-", " a/">>

\* /^diff --git .*$/m  and  /^diff --git /m
IsDiffGitLine(ln) == StartsWith(ln, DiffGitPrefix)
\* /^@@ .*@@.*$/m
IsHunkLine(ln) == StartsWith(ln, <<"@@ ">>) /\ \E j \in 2..Len(ln) : ln[j] = "@@"

DiffGitLines(T) == {j \in 1..Len(T) : IsDiffGitLine(T[j])}
HunkLines(T) == {j \in 1..Len(T) : IsHunkLine(T[j])}

\* A line matched by /\n<prefix>([^\n]+)\n/ : it has a line before it and a
\* line after it in the text, starts with the prefix and goes on.
IsHeaderAt(T, j, prefix) ==
    /\ 2 <= j /\ j <= Len(T) - 1
    /\ StartsWith(T[j], prefix)
    /\ Len(T[j]) > Len(prefix)

\* block.match(/\n<prefix>([^\n]+)\n/)?.[1] : the first match, or undefined.
HeaderPath(B, prefix) ==
    LET hs == {j \in 1..Len(B) : IsHeaderAt(B, j, prefix)}
    IN  IF hs = {} THEN NoPath ELSE Slice(B[Kth(hs, 1)], Len(prefix))

\* /new file mode/.test(block)
HasNewFileMode(B) ==
    \E j \in 1..Len(B) : \E k \in 1..Len(B[j]) : B[j][k] = "new file mode"

\* diff.split(/^diff --git .*$/m).filter(Boolean)
SplitFiles(T) == SelectSeq(SplitAtLines(T, DiffGitLines(T)), LAMBDA p : p # EmptyText)

\* block.split(/^@@ .*@@.*$/m).slice(1)
SplitHunks(B) == Tail(SplitAtLines(B, HunkLines(B)))

\* The inner loops of applyUnifiedDiff: '+' lines lose the marker, '-' and
\* '\' lines are dropped, every other line is kept as it is.
RECURSIVE KeptLines(_)
KeptLines(h) ==
    IF h = <<>> THEN <<>>
    ELSE LET ln == Head(h)
         IN  (IF StartsWith(ln, <<"+">>) THEN <<Slice(ln, 1)>>
              ELSE IF ~StartsWith(ln, <<"-">>) /\ ~StartsWith(ln, <<"\\">>) THEN <<ln>>
              ELSE <<>>) \o KeptLines(Tail(h))

RECURSIVE Reconstruct(_)
Reconstruct(hunks) ==
    IF hunks = <<>> THEN <<>>
    ELSE KeptLines(Head(hunks)) \o Reconstruct(Tail(hunks))

\* lines.join("\n").replace(/^\n/, "")
StripLeadingNewline(T) == IF Len(T) >= 2 /\ T[1] = Blank THEN Tail(T) ELSE T

\* The content written for a new file (run.ts 44-52).
NewFileBody(B) == StripLeadingNewline(Join(Reconstruct(SplitHunks(B))))

\* Mutant of EditBody: the baseline is forgotten when there is no hunk.
EditBody_NoBaseline(B, original) == Join(Reconstruct(SplitHunks(B)))

\* The content written for an edit (run.ts 59-75); original is the baseline
\* read from disk, already split into lines.
EditBody(B, original) ==
    LET hunks == SplitHunks(B)
        reconstructed == Reconstruct(hunks)
    IN  IF hunks # <<>> /\ reconstructed # <<>> THEN Join(reconstructed)
        ELSE Join(original)

\* ------------------------------------------------------------- guardrail
\* Mutant of Norm: only "./" is stripped, ".\" is not.
Norm_SlashOnly(s) ==
    IF Len(s) >= 2 /\ s[1] = "." /\ s[2] = "/" THEN Slice(s, 2) ELSE s

\* const norm = (s) => s.replace(/^[.][/\\]/, "")
Norm(s) ==
    IF Len(s) >= 2 /\ s[1] = "." /\ s[2] \in {"/", "\\"} THEN Slice(s, 2) ELSE s

\* p => p.replace(/^\.\//, "")   (run.ts 127-129, when the whitelist is loaded)
StripDotSlash(s) ==
    IF Len(s) >= 2 /\ s[1] = "." /\ s[2] = "/" THEN Slice(s, 2) ELSE s

DefaultWhitelistPaths ==
    << <<"packages", "/">>, <<"src", "/">>, <<"docs", "/">>,
       <<"CHANGELOG", ".", "md">> >>

\* cfg.conventions?.whitelistPaths ?? [defaults]
WhitelistPaths(c) == IF c.present THEN c.paths ELSE DefaultWhitelistPaths

\* new Set(paths.map(p => p.replace(/^\.\//, "")))
LoadWhitelist(c) ==
    {StripDotSlash(WhitelistPaths(c)[k]) : k \in 1..Len(WhitelistPaths(c))}

\* [...diffText.matchAll(/\n\+\+\+ b\/([^\n]+)\n/g)].map(m => m[1]) : the
\* matches do not overlap, and a match takes the line terminator after its
\* line, so the line right after a matched header cannot start a match.
RECURSIVE ScanHeaders(_, _)
ScanHeaders(T, j) ==
    IF j > Len(T) - 1 THEN <<>>
    ELSE IF IsHeaderAt(T, j, NewHeaderPrefix)
         THEN <<Slice(T[j], Len(NewHeaderPrefix))>> \o ScanHeaders(T, j + 2)
         ELSE ScanHeaders(T, j + 1)

\* Mutant of AddedPaths: match without the g flag, the first header only.
AddedPaths_FirstOnly(T) ==
    IF HeaderPath(T, NewHeaderPrefix) = NoPath THEN <<>>
    ELSE <<HeaderPath(T, NewHeaderPrefix)>>

AddedPaths(T) == ScanHeaders(T, 2)

\* Array.from(whitelist).some(w => norm(p).startsWith(norm(w)))
Allowed(p, wl) == \E w \in wl : StartsWith(Norm(p), Norm(w))

\* Mutant of BadPath: every in the place of some.
BadPath_Every(paths, wl) ==
    paths # <<>> /\ \A k \in 1..Len(paths) : ~Allowed(paths[k], wl)

\* addedPaths.some(p => !allowed(p))
BadPath(paths, wl) == \E k \in 1..Len(paths) : ~Allowed(paths[k], wl)

\* Mutant of NeedsPatch: the gate looks for a +++ header, not for a section.
NeedsPatch_ByHeader(T) == AddedPaths(T) # <<>>

\* /^diff --git /m.test(diffText)
NeedsPatch(T) == DiffGitLines(T) # {}

\* ----------------------------------------------------------- file system
\* The working tree: a function from the paths that exist to their content.
\* A relative path names the same file with or without leading "./".
RECURSIVE Resolve(_)
Resolve(p) ==
    IF Len(p) >= 2 /\ p[1] = "." /\ p[2] = "/" THEN Resolve(Slice(p, 2)) ELSE p

\* fs.existsSync(p)
Exists(f, p) == Resolve(p) \in DOMAIN f
\* fs.readFileSync(p, "utf8").split("\n")
ReadLines(f, p) == f[Resolve(p)]
\* writeFileSafe(p, content)
WriteFile(f, p, content) ==
    [q \in DOMAIN f \cup {Resolve(p)} |-> IF q = Resolve(p) THEN content ELSE f[q]]

\* ---------------------------------------------------------------- inputs
\* Lines of a unified diff.
DiffGit == <<"diff --git ", "a/f b/f">>
NewFileMode == <<"new file mode", " 100644">>
HunkHeader == <<"@@ ", "-1,3 +1,3 ", "@@">>
NoNewline == <<"\\", " No newline at end of file">>
Fence == <<"~~~diff">>
NewH(p) == NewHeaderPrefix \o p
OldH(p) == OldHeaderPrefix \o p
Add(t) == <<"+">> \o t
Rem(t) == <<"-">> \o t
Ctx(t) == <<" ">> \o t

\* Paths.  SrcA and SrcO exist in the working tree, the others do not.
SrcA == <<"src", "/", "a", ".", "ts">>
SrcO == <<"src", "/", "o", ".", "ts">>
SrcGone == <<"src", "/", "gone", ".", "ts">>
SrcN == <<"src", "/", "n", ".", "ts">>
PkgX == <<"pkg", "/", "x", ".", "txt">>
SecretsB == <<"secrets", "/", "b", ".", "ts">>
DocsReadme == <<"docs", "/", "readme", ".", "md">>
testFile == <<"tests", "/", "agent", "/", "issue_9", ".", "test", ".", "ts">>
AgentDiff == <<".", "agent", ".", "diff">>

Fs0 == (SrcA :> << <<"a1">>, <<"a2">> >>) @@ (SrcO :> << <<"o1">> >>)
testBody == << <<"import { describe, it, expect } from \"vitest\";">>,
               <<"expect(md).toContain(\"__EXPECTED_THAT_FAILS__\");">>, Blank >>
\* The working tree once the failing test is written (run.ts 184).
SeededFs == WriteFile(Fs0, testFile, testBody)

\* .firecrawl-agent.yml: absent (or without whitelistPaths), or a list.
NoCfg == [present |-> FALSE, paths |-> <<>>]
Cfg(paths) == [present |-> TRUE, paths |-> paths]
PatchCfg == Cfg(<< <<"src", "/">>, <<"pkg", "/">> >>)
GuardEntries ==
    { <<"docs", "/">>, <<".", "/", "docs", "/">>, <<".", "\\", "docs", "/">>,
      <<".", "/", ".", "/", "docs", "/">>, <<".", "/", ".", "\\", "docs", "/">>,
      <<"src">>, <<".", "/">> }
GuardCfgs == {NoCfg} \cup {Cfg(<<e>>) : e \in GuardEntries}
             \cup {Cfg(<< <<"docs", "/">>, <<"src">> >>)}
Configs == {PatchCfg} \cup GuardCfgs

GuardPaths ==
    { DocsReadme, <<".", "/">> \o DocsReadme, <<".", "\\">> \o DocsReadme,
      <<".", ".", "/">> \o DocsReadme, <<".", "/", ".", "/">> \o DocsReadme,
      <<"src", "-old", "/", "x">>, SrcA, <<"CHANGELOG", ".", "md">> }

\* Hunk bodies, and the hunks of a section.
Bodies ==
    { <<Add(<<"line1">>), Add(<<"line2">>)>>,
      <<Ctx(<<"keep">>), Rem(<<"old">>), Add(<<"new">>)>>,
      <<Add(<<"line1">>), NoNewline>> }
HunkSeqs == UNION {[1..k -> Bodies] : k \in 0..MaxHunks}
HunkText(hs) == Flatten([k \in 1..Len(hs) |-> <<HunkHeader>> \o hs[k]])

\* What stands between `diff --git` and the first hunk of a section.
HeaderParts ==
    { nf \o old \o new :
        nf \in {<<>>, <<NewFileMode>>},
        old \in {<<>>, <<OldH(SrcO)>>, <<OldH(SrcGone)>>},
        new \in {<<>>, <<NewH(SrcA)>>, <<NewH(PkgX)>>, <<NewH(SecretsB)>>,
                 <<NewH(SrcA), NewH(SecretsB)>>, <<NewH(SecretsB), NewH(SrcA)>>} }

\* The section under study, and the sections that may stand around it.
Subjects == {<<DiffGit>> \o h \o HunkText(hs) : h \in HeaderParts, hs \in HunkSeqs}
NewFileSection == <<DiffGit, NewFileMode, NewH(SrcN), HunkHeader, Add(<<"line1">>)>>
SecretSection == <<DiffGit, NewH(SecretsB), HunkHeader, Add(<<"line1">>)>>
Fillers == {NewFileSection, SecretSection}
FillerSeqs(k) == {Flatten(f) : f \in [1..k -> Fillers]}

\* What the reply holds before its first `diff --git` line.
Preambles ==
    { <<>>, <<Fence>>, <<Fence, NewH(SrcA), HunkHeader, Add(<<"line1">>)>>,
      <<NewH(SecretsB), HunkHeader, Add(<<"line1">>)>> }

PatchTexts ==
    { p \o a \o s \o b :
        p \in Preambles, s \in Subjects \cup {<<>>},
        a \in UNION {FillerSeqs(k) : k \in 0..(MaxSections - 1)},
        b \in UNION {FillerSeqs(k) : k \in 0..(MaxSections - 1)} }

Sections(T) == Cardinality(DiffGitLines(T))

\* A model reply: the text, then a line terminator; or nothing at all.
PatchContents ==
    {t \o <<Blank>> : t \in {x \in PatchTexts : Sections(x) <= MaxSections}}
    \cup {<< <<" ">>, Blank >>}

GuardContents ==
    {<<DiffGit, NewH(p), HunkHeader, Add(<<"line1">>), Blank>> : p \in GuardPaths}

Replies(c) == IF c = PatchCfg THEN PatchContents ELSE GuardContents

\* The replies of the runs of main.
RunContents ==
    { <<Blank>>,
      <<Fence, NewH(SrcA), HunkHeader, Add(<<"line1">>), Fence>>,
      <<Fence, DiffGit, NewFileMode, NewH(PkgX), HunkHeader, Add(<<"line1">>), Add(<<"line2">>), Blank>>,
      <<DiffGit, NewH(SrcA), HunkHeader, Ctx(<<"keep">>), Rem(<<"old">>), Add(<<"new">>), Blank>>,
      <<DiffGit, NewH(SrcA), HunkHeader, Add(<<"line1">>)>> \o SecretSection,
      <<DiffGit, OldH(SrcGone), NewH(SrcA), HunkHeader, Add(<<"line1">>)>> \o NewFileSection }
RunCfgs == {NoCfg, PatchCfg}

\* ----------------------------------------------------------------- state
VARIABLES
    pc,          \* where main stands
    cfg,         \* what loadAgentCfg returned
    whitelist,   \* the Set built at run.ts 126
    items,       \* search results not yet looked at
    target,      \* whether an issue was selected
    testsFailed, \* run.ts 188
    afterPass,   \* run.ts 259
    diffText,    \* run.ts 221
    addedPaths,  \* run.ts 228
    verdict,     \* "none", "skipped" (no diff), "rejected" or "accepted"
    files,       \* applyUnifiedDiff: the blocks of the diff
    i,           \* applyUnifiedDiff: the block the loop stands at
    fs,          \* the working tree
    written,     \* the newPath values applyUnifiedDiff has written
    log          \* the collaborator calls made so far, each with its outcome

vars == <<pc, cfg, whitelist, items, target, testsFailed, afterPass, diffText,
          addedPaths, verdict, files, i, fs, written, log>>

\* per_page of the issue search (run.ts 137).
PerPage == 10

\* Mutant of Caught: the push is wrapped in a try/catch too.
Caught_WithPush == {"test", "git commit", "retest", "git push"}

\* The calls whose failure main catches (run.ts 189-194, 253-257, 260-265).
Caught == {"test", "git commit", "retest"}

\* Where main goes when a call fails: on after a caught failure, else the
\* rejection reaches main().catch, which exits the process (run.ts 301-305).
OnFailure(step, next) == IF step \in Caught THEN next ELSE "aborted"

\* Mutant of AfterReject: main returns when it rejects a diff.
AfterReject_Stop == "done"

\* Where main goes after it rejects a diff (run.ts 240-251).
AfterReject == "gitAdd"

Logged(step, ok) == log' = Append(log, [step |-> step, ok |-> ok])

\* One collaborator call: it returns, or it throws.
Call(at, step, next) ==
    /\ pc = at
    /\ \E ok \in BOOLEAN :
        /\ Logged(step, ok)
        /\ pc' = IF ok THEN next ELSE OnFailure(step, next)

Init ==
    /\ pc = "start"
    /\ cfg = NoCfg
    /\ whitelist = {}
    /\ items = 0
    /\ target = FALSE
    /\ testsFailed = FALSE
    /\ afterPass = FALSE
    /\ diffText = EmptyText
    /\ addedPaths = <<>>
    /\ verdict = "none"
    /\ files = <<>>
    /\ i = 1
    /\ fs = Fs0
    /\ written = {}
    /\ log = <<>>

\* run.ts 115-124: no repository (a local run) ends the run, a missing token
\* throws, and the configuration is loaded.
Start ==
    /\ pc = "start"
    /\ \/ /\ pc' = "exit"
          /\ UNCHANGED <<cfg, whitelist, log>>
       \/ /\ pc' = "aborted"
          /\ Logged("env", FALSE)
          /\ UNCHANGED <<cfg, whitelist>>
       \/ /\ pc' = "aborted"
          /\ Logged("loadAgentCfg", FALSE)
          /\ UNCHANGED <<cfg, whitelist>>
       \/ \E c \in RunCfgs :
            /\ cfg' = c
            /\ whitelist' = LoadWhitelist(c)
            /\ Logged("loadAgentCfg", TRUE)
            /\ pc' = "search"
    /\ UNCHANGED <<items, target, testsFailed, afterPass, diffText, addedPaths,
                   verdict, files, i, fs, written>>

\* run.ts 133-138
Search ==
    /\ pc = "search"
    /\ \/ /\ Logged("search", FALSE)
          /\ pc' = "aborted"
          /\ UNCHANGED items
       \/ /\ Logged("search", TRUE)
          /\ pc' = "scan"
          /\ items' \in 0..PerPage
    /\ UNCHANGED <<cfg, whitelist, target, testsFailed, afterPass, diffText,
                   addedPaths, verdict, files, i, fs, written>>

\* run.ts 141-152: one round of the loop over the search results.
ListComments ==
    /\ pc = "scan"
    /\ items > 0
    /\ \/ /\ Logged("listComments", FALSE)
          /\ pc' = "aborted"
          /\ UNCHANGED <<items, target>>
       \/ /\ Logged("listComments", TRUE)
          /\ \/ /\ target' = TRUE
                /\ pc' = "gitConfigName"
                /\ UNCHANGED items
             \/ /\ items' = items - 1
                /\ UNCHANGED <<pc, target>>
    /\ UNCHANGED <<cfg, whitelist, testsFailed, afterPass, diffText, addedPaths,
                   verdict, files, i, fs, written>>

\* run.ts 154-157
NoTarget ==
    /\ pc = "scan"
    /\ items = 0
    /\ pc' = "exit"
    /\ UNCHANGED <<cfg, whitelist, items, target, testsFailed, afterPass, diffText,
                   addedPaths, verdict, files, i, fs, written, log>>

Rest == <<cfg, whitelist, items, target, testsFailed, afterPass, diffText,
          addedPaths, verdict, files, i, fs, written>>

\* run.ts 162-164
GitConfigName == Call("gitConfigName", "git config user.name", "gitConfigEmail") /\ UNCHANGED Rest
GitConfigEmail == Call("gitConfigEmail", "git config user.email", "gitCheckout") /\ UNCHANGED Rest
GitCheckout == Call("gitCheckout", "git checkout", "writeTest") /\ UNCHANGED Rest

\* run.ts 184
WriteTest ==
    /\ pc = "writeTest"
    /\ fs' = WriteFile(fs, testFile, testBody)
    /\ pc' = "test"
    /\ UNCHANGED <<cfg, whitelist, items, target, testsFailed, afterPass, diffText,
                   addedPaths, verdict, files, i, written, log>>

\* run.ts 188-194
Test ==
    /\ pc = "test"
    /\ \E ok \in BOOLEAN :
        /\ Logged("test", ok)
        /\ testsFailed' = ~ok
        /\ pc' = IF ok THEN "pwd" ELSE OnFailure("test", "pwd")
    /\ UNCHANGED <<cfg, whitelist, items, target, afterPass, diffText, addedPaths,
                   verdict, files, i, fs, written>>

\* run.ts 198-199
Pwd == Call("pwd", "pwd", "gitLsFiles") /\ UNCHANGED Rest
GitLsFiles == Call("gitLsFiles", "git ls-files", "llm") /\ UNCHANGED Rest

\* run.ts 220-221
Llm ==
    /\ pc = "llm"
    /\ \/ /\ Logged("llm", FALSE)
          /\ pc' = OnFailure("llm", "gate")
          /\ UNCHANGED diffText
       \/ \E content \in RunContents :
            /\ Logged("llm", TRUE)
            /\ diffText' = Trim(content)
            /\ pc' = "gate"
    /\ UNCHANGED <<cfg, whitelist, items, target, testsFailed, afterPass, addedPaths,
                   verdict, files, i, fs, written>>

\* run.ts 223-225
Gate ==
    /\ pc = "gate"
    /\ IF NeedsPatch(diffText)
       THEN pc' = "guardrail" /\ UNCHANGED verdict
       ELSE pc' = "gitAdd" /\ verdict' = "skipped"
    /\ UNCHANGED <<cfg, whitelist, items, target, testsFailed, afterPass, diffText,
                   addedPaths, files, i, fs, written, log>>

\* run.ts 228-246, up to the call of applyUnifiedDiff and its line 33.
Guardrail ==
    /\ pc = "guardrail"
    /\ addedPaths' = AddedPaths(diffText)
    /\ IF BadPath(addedPaths', whitelist)
       THEN /\ verdict' = "rejected"
            /\ pc' = AfterReject
            /\ UNCHANGED <<fs, files, i>>
       ELSE /\ verdict' = "accepted"
            /\ fs' = WriteFile(fs, AgentDiff, diffText)
            /\ files' = SplitFiles(diffText)
            /\ i' = 1
            /\ pc' = "apply"
    /\ UNCHANGED <<cfg, whitelist, items, target, testsFailed, afterPass, diffText,
                   written, log>>

\* ------------------------------------------- applyUnifiedDiff, per block
newPath(B) == HeaderPath(B, NewHeaderPrefix)
\* oldHeader?.[1] ?? newPath
oldPath(B) ==
    IF HeaderPath(B, OldHeaderPrefix) = NoPath THEN newPath(B)
    ELSE HeaderPath(B, OldHeaderPrefix)
\* run.ts 43
IsNewFile(B, f) == HasNewFileMode(B) \/ ~Exists(f, newPath(B))

InLoop == pc = "apply" /\ i <= Len(files)
ApplyFrame == <<cfg, whitelist, items, target, testsFailed, afterPass, diffText,
                addedPaths, verdict, files>>

\* run.ts 40: a block without a +++ header is passed over.
ApplySkipBlock ==
    /\ InLoop
    /\ newPath(files[i]) = NoPath
    /\ i' = i + 1
    /\ UNCHANGED <<pc, fs, written, log>>
    /\ UNCHANGED ApplyFrame

\* run.ts 43-54
ApplyNewFile ==
    /\ InLoop
    /\ newPath(files[i]) # NoPath
    /\ IsNewFile(files[i], fs)
    /\ fs' = WriteFile(fs, newPath(files[i]), NewFileBody(files[i]))
    /\ written' = written \cup {newPath(files[i])}
    /\ i' = i + 1
    /\ UNCHANGED <<pc, log>>
    /\ UNCHANGED ApplyFrame

\* run.ts 58-75
ApplyEdit ==
    /\ InLoop
    /\ newPath(files[i]) # NoPath
    /\ ~IsNewFile(files[i], fs)
    /\ Exists(fs, oldPath(files[i]))
    /\ fs' = WriteFile(fs, newPath(files[i]),
                       EditBody(files[i], ReadLines(fs, oldPath(files[i]))))
    /\ written' = written \cup {newPath(files[i])}
    /\ i' = i + 1
    /\ UNCHANGED <<pc, log>>
    /\ UNCHANGED ApplyFrame

\* run.ts 59: readFileSync throws on a baseline that does not exist; nothing
\* catches it before main().catch (run.ts 301-305).
ApplyMissingBase ==
    /\ InLoop
    /\ newPath(files[i]) # NoPath
    /\ ~IsNewFile(files[i], fs)
    /\ ~Exists(fs, oldPath(files[i]))
    /\ Logged("readFileSync", FALSE)
    /\ pc' = OnFailure("readFileSync", "apply")
    /\ UNCHANGED <<i, fs, written>>
    /\ UNCHANGED ApplyFrame

\* run.ts 76-77, 246: the loop is over and applyUnifiedDiff returns.
ApplyReturn ==
    /\ pc = "apply"
    /\ i > Len(files)
    /\ pc' = "gitAdd"
    /\ UNCHANGED <<i, fs, written, log>>
    /\ UNCHANGED ApplyFrame

\* run.ts 251-257
GitAdd == Call("gitAdd", "git add", "gitCommit") /\ UNCHANGED Rest
GitCommit == Call("gitCommit", "git commit", "retest") /\ UNCHANGED Rest

\* run.ts 259-265
Retest ==
    /\ pc = "retest"
    /\ \E ok \in BOOLEAN :
        /\ Logged("retest", ok)
        /\ afterPass' = ok
        /\ pc' = IF ok THEN "gitPush" ELSE OnFailure("retest", "gitPush")
    /\ UNCHANGED <<cfg, whitelist, items, target, testsFailed, diffText, addedPaths,
                   verdict, files, i, fs, written>>

\* run.ts 268-298
GitPush == Call("gitPush", "git push", "pullsCreate") /\ UNCHANGED Rest
PullsCreate == Call("pullsCreate", "pulls.create", "addLabels") /\ UNCHANGED Rest
AddLabels == Call("addLabels", "issues.addLabels", "createComment") /\ UNCHANGED Rest
CreateComment == Call("createComment", "issues.createComment", "done") /\ UNCHANGED Rest

Next ==
    \/ Start \/ Search \/ ListComments \/ NoTarget
    \/ GitConfigName \/ GitConfigEmail \/ GitCheckout \/ WriteTest \/ Test
    \/ Pwd \/ GitLsFiles \/ Llm
    \/ Gate \/ Guardrail \/ ApplySkipBlock \/ ApplyNewFile \/ ApplyEdit
    \/ ApplyMissingBase \/ ApplyReturn
    \/ GitAdd \/ GitCommit \/ Retest \/ GitPush \/ PullsCreate \/ AddLabels
    \/ CreateComment

\* The run of main.
Spec == Init /\ [][Next]_vars

\* The calls main has made when it reaches run.ts 223, none of them failed
\* but the test run, which fails as the seeded test is meant to.
CallsBeforeGate ==
    << [step |-> "loadAgentCfg", ok |-> TRUE], [step |-> "search", ok |-> TRUE],
       [step |-> "listComments", ok |-> TRUE],
       [step |-> "git config user.name", ok |-> TRUE],
       [step |-> "git config user.email", ok |-> TRUE],
       [step |-> "git checkout", ok |-> TRUE], [step |-> "test", ok |-> FALSE],
       [step |-> "pwd", ok |-> TRUE], [step |-> "git ls-files", ok |-> TRUE],
       [step |-> "llm", ok |-> TRUE] >>

\* The patch stage alone, over every configuration and reply: main stands
\* before run.ts 223 with the failing test written.
PatchInit ==
    /\ pc = "gate"
    /\ cfg \in Configs
    /\ whitelist = LoadWhitelist(cfg)
    /\ items = 1
    /\ target = TRUE
    /\ testsFailed = TRUE
    /\ afterPass = FALSE
    /\ diffText \in {Trim(c) : c \in Replies(cfg)}
    /\ addedPaths = <<>>
    /\ verdict = "none"
    /\ files = <<>>
    /\ i = 1
    /\ fs = SeededFs
    /\ written = {}
    /\ log = CallsBeforeGate

PatchNext ==
    \/ Gate \/ Guardrail \/ ApplySkipBlock \/ ApplyNewFile \/ ApplyEdit
    \/ ApplyMissingBase \/ ApplyReturn

PatchSpec == PatchInit /\ [][PatchNext]_vars

\* ---------------------------------------------------------------- claims
\* Terms of the claims, stated on the text of the diff.

\* The paths of all the header lines `+++ b/<path>` of a text: each line the
\* header expression matches when it is tried at that line (a line stands
\* before it and after it), whatever was matched before it.
HeaderLinePaths(T) ==
    { Slice(T[j], Len(NewHeaderPrefix)) :
        j \in {k \in 1..Len(T) : IsHeaderAt(T, k, NewHeaderPrefix)} }

\* The lines of the b-th block of a text as they stand in the text: from the
\* line after a `diff --git` line (or from the start) to the line before the
\* next one (or to the end).
TrueLines(T, b) ==
    LET K == DiffGitLines(T)
        m == Cardinality(K)
        P == SplitAtLines(T, K)
        kept == {j \in 1..(m + 1) : P[j] # EmptyText}
        j == Kth(kept, b) - 1
        lo == IF j = 0 THEN 1 ELSE Kth(K, j) + 1
        hi == IF j = m THEN Len(T) ELSE Kth(K, j + 1) - 1
    IN  SubSeq(T, lo, hi)

\* The text of the added and context lines of a section's hunks, in hunk
\* order then line order.
RECURSIVE SurvivingText(_)
SurvivingText(L) ==
    IF L = <<>> THEN <<>>
    ELSE LET ln == Head(L)
         IN  (IF IsHunkLine(ln) \/ (ln # <<>> /\ ln[1] \in {"-", "\\"}) THEN <<>>
              ELSE IF ln # <<>> /\ ln[1] = "+" THEN <<Tail(ln)>>
              ELSE <<ln>>) \o SurvivingText(Tail(L))

HunkBodyText(S) ==
    IF HunkLines(S) = {} THEN <<>>
    ELSE SurvivingText(SubSeq(S, Kth(HunkLines(S), 1) + 1, Len(S)))

GuardrailRan == verdict \in {"accepted", "rejected"}
Untouched == written = {} /\ fs = SeededFs /\ pc # "apply" /\ files = <<>>
Last(q) == q[Len(q)]
Called(step) == \E k \in 1..Len(log) : log[k].step = step /\ log[k].ok
InRange(x, q) == \E k \in 1..Len(q) : q[k] = x

C2_WrittenPathsValidated ==
    \A p \in written :
        /\ InRange(p, addedPaths)
        /\ \E w \in whitelist : StartsWith(Norm(p), Norm(w))

C2_Witness == pc = "gitAdd" /\ Cardinality(written) >= 2 /\ Len(files) >= 3

\* One leading "./" or ".\" stripped, as C3 states the normalization.
StripOne(s) ==
    IF Len(s) >= 2 /\ s[1] = "." /\ (s[2] = "/" \/ s[2] = "\\")
    THEN SubSeq(s, 3, Len(s)) ELSE s
ConfiguredEntries == {WhitelistPaths(cfg)[k] : k \in 1..Len(WhitelistPaths(cfg))}

\* C3, as stated: the guardrail accepts exactly when every extracted path,
\* with one leading "./" or ".\" stripped, starts with some allowlist entry
\* with one leading "./" or ".\" stripped.
C3_StripOnceEachSide ==
    GuardrailRan =>
        (verdict = "accepted" <=>
            \A k \in 1..Len(addedPaths) :
                \E w \in ConfiguredEntries :
                    StartsWith(StripOne(addedPaths[k]), StripOne(w)))

\* C3, amended: an allowlist entry loses one leading "./" when the allowlist
\* is loaded and then one more leading "./" or ".\" when it is compared; the
\* path loses one leading "./" or ".\"; the match is a plain prefix match.
C3_PrefixMatchAfterStrip ==
    GuardrailRan =>
        (verdict = "accepted" <=>
            \A k \in 1..Len(addedPaths) :
                \E w \in ConfiguredEntries :
                    StartsWith(StripOne(addedPaths[k]),
                               StripOne(IF StartsWith(w, <<".", "/">>)
                                        THEN SubSeq(w, 3, Len(w)) ELSE w)))

C3_Witness ==
    /\ verdict = "accepted"
    /\ cfg = Cfg(<< <<".", "/", "docs", "/">> >>)
    /\ addedPaths = <<DocsReadme>>

\* C4, as stated: an edit of an existing file whose section has one or more
\* hunks leaves in newPath exactly the text of the added and context lines,
\* in hunk order then line order.
C4_EditBodyIsSurvivingLines ==
    [][ (/\ InLoop
         /\ newPath(files[i]) # NoPath
         /\ ~IsNewFile(files[i], fs)
         /\ Exists(fs, oldPath(files[i]))
         /\ HunkLines(files[i]) # {})
        => (/\ Exists(fs', newPath(files[i]))
            /\ ReadLines(fs', newPath(files[i]))
                 = Join(HunkBodyText(TrueLines(diffText, i)))) ]_vars

\* C5, as stated: a section marked `new file mode` with header
\* `+++ b/pkg/x.txt` and a hunk body of `+line1`, `+line2` alone leaves
\* pkg/x.txt holding exactly line1, line2, wherever the section stands.
C5_NewFileRoundTrip ==
    [][ (/\ InLoop
         /\ LET S == TrueLines(diffText, i)
            IN  /\ HasNewFileMode(S)
                /\ newPath(files[i]) = PkgX
                /\ Cardinality(HunkLines(S)) = 1
                /\ SubSeq(S, Kth(HunkLines(S), 1) + 1, Len(S))
                     = <<Add(<<"line1">>), Add(<<"line2">>)>>)
        => (/\ Exists(fs', PkgX)
            /\ ReadLines(fs', PkgX) = << <<"line1">>, <<"line2">> >>) ]_vars

\* C6, as stated: an edit whose baseline does not exist fails alone: the
\* loop goes on to the next section and the run is not aborted.
C6_MissingBaseIsolated ==
    [][ (/\ InLoop
         /\ newPath(files[i]) # NoPath
         /\ ~IsNewFile(files[i], fs)
         /\ ~Exists(fs, oldPath(files[i])))
        => (pc' = "apply" /\ i' = i + 1) ]_vars

\* C7: after a reply without any `diff --git` line (the empty reply
\* included) the run enters neither the guardrail nor applyUnifiedDiff,
\* writes no file, throws nothing of its own and goes on to `git add`.
C7_NoDiffIsNoOp ==
    (Called("llm") /\ DiffGitLines(diffText) = {}) =>
        /\ pc \notin {"guardrail", "apply"}
        /\ verdict \in {"none", "skipped"}
        /\ Untouched
        /\ (verdict = "none" <=> pc = "gate")
        /\ Last(log).step # "readFileSync"

C7_Witness ==
    /\ pc = "done"
    /\ verdict = "skipped"
    /\ AddedPaths(diffText) = <<SrcA>>
    /\ HunkLines(diffText) # {}

\* The steps whose failure the run survives.
FailurePolicy(tolerated) ==
    /\ \A k \in 1..Len(log) :
          ~log[k].ok =>
             IF log[k].step \in tolerated
             THEN k < Len(log) \/ pc # "aborted"
             ELSE k = Len(log) /\ pc = "aborted"
    /\ pc = "aborted" => (log # <<>> /\ ~Last(log).ok)
    /\ \A j, k \in 1..Len(log) :
          (j < k /\ log[j].step = log[k].step) => log[k].step = "listComments"

\* C8, as stated: every failed step but a test run aborts the run there, with
\* no later step and no retry.
C8_OnlyTestsSurvive == FailurePolicy({"test", "retest"})

\* C8, amended: the failure of a test run or of `git commit` lets the run go
\* on; the failure of any other step aborts the run there, with no later
\* step and no retry.
C8_TestsAndCommitSurvive == FailurePolicy({"test", "retest", "git commit"})

C8_Witness ==
    /\ pc = "aborted"
    /\ Last(log) = [step |-> "git push", ok |-> FALSE]
    /\ InRange([step |-> "git commit", ok |-> FALSE], log)
    /\ InRange([step |-> "retest", ok |-> FALSE], log)

PublishSteps ==
    << "git add", "git commit", "retest", "git push", "pulls.create",
       "issues.addLabels", "issues.createComment" >>

\* C10: a rejected diff changes no file and does not end the run; a run that
\* is done has gone, in order, through add, commit, re-test, push, PR
\* creation, labelling and commenting, the PR, the label and the comment
\* made; the label is added right after the PR is created and the comment
\* right after the label; and a run with an issue selected stops only done
\* or aborted.
C10_RejectionStillPublishes ==
    /\ verdict = "rejected" => (Untouched /\ pc # "exit")
    /\ pc = "done" =>
          /\ Len(log) >= Len(PublishSteps)
          /\ \A k \in 1..Len(PublishSteps) :
                log[Len(log) - Len(PublishSteps) + k].step = PublishSteps[k]
          /\ \A k \in 0..2 : log[Len(log) - k].ok
    /\ \A k \in 1..Len(log) :
          /\ log[k].step = "issues.addLabels" =>
                (k > 1 /\ log[k - 1] = [step |-> "pulls.create", ok |-> TRUE])
          /\ log[k].step = "issues.createComment" =>
                (k > 1 /\ log[k - 1] = [step |-> "issues.addLabels", ok |-> TRUE])
    /\ (target /\ pc \notin {"done", "aborted"}) => ENABLED Next

C10_Witness ==
    /\ pc = "done"
    /\ verdict = "rejected"
    /\ InRange(SrcA, addedPaths)

\* A section without any `@@ ... @@` line.
ZeroHunks(B) == HunkLines(B) = {}

\* C9, as stated: a section with a header `+++ b/<path>` and no hunk leaves
\* the content of newPath as it was when it is an edit, and leaves an empty
\* file there when it is a new-file creation.
C9_ZeroHunksKeepsNewPath ==
    [][ (InLoop /\ ZeroHunks(files[i]) /\ newPath(files[i]) # NoPath)
        => LET np == newPath(files[i])
           IN  IF HasNewFileMode(files[i]) \/ ~Exists(fs, np)
               THEN Exists(fs', np) /\ ReadLines(fs', np) = EmptyText
               ELSE ReadLines(fs', np) = ReadLines(fs, np) ]_vars

\* C9, amended: a section without hunk whose `+++ b/<path>` line the applier
\* matches (a line stands before it and after it in the section) leaves in
\* newPath the content of the baseline oldPath when it is an edit (so the
\* content it had, when oldPath is newPath; and nothing is written when the
\* baseline does not exist), and an empty file when it is a new-file
\* creation.
C9_ZeroHunksWritesBaseline ==
    [][ (InLoop /\ ZeroHunks(files[i]) /\ newPath(files[i]) # NoPath)
        => LET np == newPath(files[i])
               op == oldPath(files[i])
           IN  IF HasNewFileMode(files[i]) \/ ~Exists(fs, np)
               THEN Exists(fs', np) /\ ReadLines(fs', np) = EmptyText
               ELSE IF Exists(fs, op)
                    THEN /\ ReadLines(fs', np) = ReadLines(fs, op)
                         /\ (Resolve(op) = Resolve(np) => fs' = fs)
                    ELSE fs' = fs ]_vars

C9_Witness ==
    /\ pc = "apply"
    /\ i > 1
    /\ i <= Len(files) + 1
    /\ ZeroHunks(files[i - 1])
    /\ ~HasNewFileMode(files[i - 1])
    /\ newPath(files[i - 1]) = SrcA
    /\ oldPath(files[i - 1]) = SrcO
    /\ SrcA \in written
    /\ fs[SrcA] = Fs0[SrcO]

====
